---- MODULE Spec2Model ----
(***************************************************************************)
(* torch_exid.ExtendedIterableDataset: an iterable dataset that adds an    *)
(* offset, a limit, a transform chain and a shuffle buffer to a subclass's *)
(* generator().  The model follows src/src/torch_exid/exid.py statement by *)
(* statement: the constructor, and the three nested Python generators      *)
(* (generator_with_buffer -> generator_with_conditions -> generator, plus  *)
(* flush_buffer), whose suspension points are the values of pc.            *)
(***************************************************************************)
EXTENDS Integers, Sequences, FiniteSets

\* ------------------------------------------------------------------ bounds
\* Longest finite source (number of items before it stops or raises).
MaxSrcLen == 4
\* Cap on the pulls made from a source that never ends (IntegersDataset).
MaxPulls == 5
\* Number of traversals (calls of __iter__) of the one dataset object.
MaxRuns == 2

\* -------------------------------------------------------- constructor inputs
\* An Optional argument: <<>> is Python's None, <<v>> is the value v.
None == <<>>
Some(v) == <<v>>

\* shuffle_buffer argument: 1 is the default, values <= 1 disable shuffling.
ShuffleBufferArgs == {0 - 1, 0, 1, 2, 3}
\* The seeds of tests/test_basics.py; None asks for a random one.
Seeds == {42, 43}
ShuffleSeedArgs == {Some(s) : s \in Seeds} \cup {None}
OffsetArgs == {0, 1, 2}
LimitArgs == {0 - 1, 0, 1, 2, 3}
\* transforms argument: None, an empty list, or a chain of callables.
TransformsArgs ==
    {None, Some(<<>>), Some(<<"dbl">>), Some(<<"inc", "dbl">>), Some(<<"dbl", "inc">>)}

\* The subclass's generator(): what the k-th next(gen) of a fresh generator
\* gives.  "finite" yields 0 .. len-1 and returns; "failing" yields 0 .. len-1
\* and raises; "integers" is IntegersDataset; "evens" is EvensDataset, which
\* calls self.skip_next() before yielding an odd n.
Sources ==
    [kind : {"finite", "failing"}, len : 0..MaxSrcLen]
        \cup [kind : {"integers", "evens"}, len : {0}]

Unbounded(src) == src.kind \in {"integers", "evens"}

SourceEvent(src, k) ==
    CASE src.kind = "finite" ->
            IF k < src.len THEN [t |-> "item", v |-> k] ELSE [t |-> "stop", v |-> k]
      [] src.kind = "failing" ->
            IF k < src.len THEN [t |-> "item", v |-> k] ELSE [t |-> "raise", v |-> k]
      [] src.kind = "integers" -> [t |-> "item", v |-> k]
      [] src.kind = "evens" ->
            IF k % 2 # 0 THEN [t |-> "skip", v |-> k] ELSE [t |-> "item", v |-> k]

\* A transform of the chain, called on one item.
Call(f, v) == IF f = "inc" THEN v + 1 ELSE 2 * v

\* random.Random(seed).shuffle(list): position i of the shuffled list holds
\* the item that was at position ShufflePerm(seed, len)[i] (CPython's
\* Mersenne Twister and Fisher-Yates, tabulated for the seeds of the tests).
ShufflePerm(seed, len) ==
    IF len <= 1 THEN [i \in 1..len |-> i]
    ELSE IF seed = 42 THEN
        CASE len = 2 -> <<2, 1>>
          [] len = 3 -> <<2, 1, 3>>
          [] len = 4 -> <<3, 2, 4, 1>>
          [] len = 5 -> <<4, 2, 3, 5, 1>>
          [] len = 6 -> <<4, 2, 3, 5, 1, 6>>
          [] len = 7 -> <<2, 4, 5, 3, 7, 1, 6>>
          [] len = 8 -> <<4, 5, 7, 8, 3, 6, 1, 2>>
    ELSE
        CASE len = 2 -> <<2, 1>>
          [] len = 3 -> <<3, 2, 1>>
          [] len = 4 -> <<3, 4, 2, 1>>
          [] len = 5 -> <<2, 5, 4, 3, 1>>
          [] len = 6 -> <<6, 5, 4, 2, 3, 1>>
          [] len = 7 -> <<6, 7, 5, 4, 2, 3, 1>>
          [] len = 8 -> <<7, 8, 5, 4, 2, 6, 3, 1>>

Shuffled(seed, buf) ==
    [i \in 1..Len(buf) |-> buf[ShufflePerm(seed, Len(buf))[i]]]

\* ------------------------------------------------------------------- state
VARIABLES
    obj,             \* "none" before construction, then "ready" or "error"
    called,          \* the transforms arguments the constructor was called with
    shuffle_buffer,  \* self.shuffle_buffer
    shuffle_seed,    \* self.shuffle_seed
    offset,          \* self.offset
    limit,           \* self.limit
    transforms,      \* self.transforms
    source,          \* the subclass's generator()
    counter,         \* self.counter
    buffer,          \* self.buffer
    pc,              \* position of the live traversal's generators
    x,               \* the item in flight (x of generator_with_conditions)
    pulls,           \* next(gen) calls made by the live traversal
    fi,              \* items of the buffer already yielded by flush_buffer
    final,           \* flush_buffer was entered from line 187 (after the loop)
    out,             \* items the consumer has received in this traversal
    tlog,            \* raw items passed to transform_x in this traversal
    outcome,         \* how the traversal stands for the consumer
    fresh,           \* the traversal began with counter = 0 and buffer = []
    counter0,        \* self.counter when the traversal began
    runs,            \* traversals begun so far
    prev             \* out, outcome and fresh of the traversal before

config == <<shuffle_buffer, shuffle_seed, offset, limit, transforms, source>>
runstate == <<counter, buffer>>
frame == <<x, pulls, fi, final>>
seen == <<out, tlog, outcome, fresh, counter0, runs, prev>>
vars == <<obj, called, config, runstate, pc, frame, seen>>

NoRun == [out |-> <<>>, outcome |-> "none", fresh |-> TRUE]

Init ==
    /\ obj = "none"
    /\ called = [transforms |-> None, transforms_required |-> FALSE]
    /\ shuffle_buffer = 1
    /\ shuffle_seed = 0
    /\ offset = 0
    /\ limit = 0 - 1
    /\ transforms = <<>>
    /\ source = [kind |-> "finite", len |-> 0]
    /\ counter = 0
    /\ buffer = <<>>
    /\ pc = "none"
    /\ x = 0
    /\ pulls = 0
    /\ fi = 0
    /\ final = FALSE
    /\ out = <<>>
    /\ tlog = <<>>
    /\ outcome = "none"
    /\ fresh = TRUE
    /\ counter0 = 0
    /\ runs = 0
    /\ prev = NoRun

\* ------------------------------------------------------------- constructor
\* Mutant: the guard tests `transforms is None` and lets an empty list pass.
RequiresTransformsNotNone(tr, required) == required /\ tr = None

\* `transforms_required and not transforms`: None and [] are both falsy.
RequiresMissingTransforms(tr, required) ==
    required /\ (tr = None \/ tr = Some(<<>>))

\* __init__(shuffle_buffer, shuffle_seed, offset, limit, transforms,
\* transforms_required) of a subclass whose generator() is src.
Construct(sb, seed, off, lim, tr, required, src) ==
    /\ obj = "none"
    /\ called' = [transforms |-> tr, transforms_required |-> required]
    /\ IF RequiresMissingTransforms(tr, required)
       THEN /\ obj' = "error"
            /\ UNCHANGED <<config, runstate>>
       ELSE /\ obj' = "ready"
            /\ shuffle_buffer' = sb
            /\ IF seed # None
               THEN shuffle_seed' = seed[1]
               ELSE \E r \in Seeds : shuffle_seed' = r
            /\ buffer' = <<>>
            /\ offset' = off
            /\ limit' = lim
            /\ counter' = 0
            /\ transforms' = IF tr # None THEN tr[1] ELSE <<>>
            /\ source' = src
    /\ UNCHANGED <<pc, frame, seen>>

\* ------------------------------------------------------- pipeline helpers
\* Mutant: the gate compares with <=, allowing one pull too many.
limit_allows_one_too_many ==
    IF limit < 0 THEN TRUE ELSE counter <= limit + offset

\* Mutant: the gate forgets the offset.
limit_ignores_offset ==
    IF limit < 0 THEN TRUE ELSE counter < limit

\* Mutant: the gate never closes.
limit_never_checked == TRUE

limit_allows_one_more ==
    IF limit < 0 THEN TRUE ELSE counter < limit + offset

RECURSIVE ApplyFrom(_, _)
ApplyFrom(i, v) ==
    IF i > Len(transforms) THEN v ELSE ApplyFrom(i + 1, Call(transforms[i], v))

\* Mutant: the chain is applied from its last transform to its first.
RECURSIVE ApplyDownFrom(_, _)
ApplyDownFrom(i, v) ==
    IF i < 1 THEN v ELSE ApplyDownFrom(i - 1, Call(transforms[i], v))

transform_x_reversed(v) == ApplyDownFrom(Len(transforms), v)

transform_x(v) == ApplyFrom(1, v)

\* Where generator_with_buffer goes on when generator_with_conditions ends.
AfterLoop == IF shuffle_buffer > 1 THEN "drain" ELSE "reset"

\* ---------------------------------------------------------------- consumer
\* iter(ds): __iter__ returns a new generator object; none of its body runs.
Iter ==
    /\ obj = "ready"
    /\ pc = "none"
    /\ runs < MaxRuns
    /\ pc' = "start"
    /\ runs' = runs + 1
    /\ prev' = [out |-> out, outcome |-> outcome, fresh |-> fresh]
    /\ out' = <<>>
    /\ tlog' = <<>>
    /\ outcome' = "created"
    /\ pulls' = 0
    /\ UNCHANGED <<obj, called, config, runstate, x, fi, final, fresh, counter0>>

\* First next(it): the body starts, gen = self.generator() is created.
NextStart ==
    /\ pc = "start"
    /\ pc' = "gate"
    /\ outcome' = "running"
    /\ fresh' = (counter = 0 /\ buffer = <<>>)
    /\ counter0' = counter
    /\ UNCHANGED <<obj, called, config, runstate, frame, out, tlog, runs, prev>>

\* next(it) after an item yielded at line 191: resume after line 160.
NextAfterYield ==
    /\ pc = "yield_direct"
    /\ pc' = "incr"
    /\ UNCHANGED <<obj, called, config, runstate, frame, seen>>

\* next(it) after an item yielded at line 127: resume flush_buffer's loop.
NextInFlush ==
    /\ pc = "yield_flush"
    /\ pc' = "flush_loop"
    /\ UNCHANGED <<obj, called, config, runstate, frame, seen>>

\* Mutant: closing the generators runs the reset of lines 194-195.
AbandonResets ==
    /\ pc \in {"start", "yield_direct", "yield_flush"}
    /\ pc' = "none"
    /\ outcome' = "abandoned"
    /\ counter' = 0
    /\ buffer' = <<>>
    /\ UNCHANGED <<obj, called, config, frame, out, tlog, fresh, counter0, runs, prev>>

\* The consumer drops the iterator before its end: the generators are closed
\* (GeneratorExit at the yield, which no handler of the module catches, so
\* nothing of the run state changes).
Abandon ==
    /\ pc \in {"start", "yield_direct", "yield_flush"}
    /\ pc' = "none"
    /\ outcome' = "abandoned"
    /\ UNCHANGED <<obj, called, config, runstate, frame, out, tlog, fresh, counter0, runs, prev>>

\* ------------------------------------------- generator_with_conditions
\* Line 151: if not self.limit_allows_one_more: raise StopIteration (caught
\* at line 164: break).
GateCheck ==
    /\ pc = "gate"
    /\ pc' = IF limit_allows_one_more THEN "pull" ELSE AfterLoop
    /\ UNCHANGED <<obj, called, config, runstate, frame, seen>>

\* Line 154: x = next(gen).  StopIteration of the source breaks the loop;
\* any other exception leaves through every generator to the consumer.  The
\* class defines no skip_next, so EvensDataset's call of it raises
\* AttributeError inside next(gen).
Pull ==
    /\ pc = "pull"
    /\ Unbounded(source) => pulls < MaxPulls
    /\ LET ev == SourceEvent(source, pulls) IN
        /\ pulls' = pulls + 1
        /\ CASE ev.t = "item" ->
                    /\ x' = ev.v
                    /\ pc' = "filter"
                    /\ UNCHANGED outcome
             [] ev.t = "stop" ->
                    /\ pc' = AfterLoop
                    /\ UNCHANGED <<x, outcome>>
             [] ev.t \in {"raise", "skip"} ->
                    /\ pc' = "none"
                    /\ outcome' = "raised"
                    /\ UNCHANGED x
    /\ UNCHANGED <<obj, called, config, runstate, fi, final, out, tlog, fresh, counter0, runs, prev>>

\* Mutant: an item dropped by the offset filter is not counted.
OffsetFilterNoCount ==
    /\ pc = "filter"
    /\ pc' = IF counter < offset THEN "gate" ELSE "transform"
    /\ UNCHANGED <<obj, called, config, runstate, frame, seen>>

\* Lines 156-158: the offset filter.
OffsetFilter ==
    /\ pc = "filter"
    /\ IF counter < offset
       THEN /\ counter' = counter + 1
            /\ pc' = "gate"
       ELSE /\ pc' = "transform"
            /\ UNCHANGED counter
    /\ UNCHANGED <<obj, called, config, buffer, frame, seen>>

\* Mutant: line 179 tests shuffle_buffer >= 1, so a size of 1 buffers.
YieldTransformedBuffersAtOne ==
    /\ pc = "transform"
    /\ x' = transform_x(x)
    /\ tlog' = Append(tlog, x)
    /\ pc' = IF shuffle_buffer >= 1 THEN "append" ELSE "emit"
    /\ UNCHANGED <<obj, called, config, runstate, pulls, fi, final, out, outcome,
                   fresh, counter0, runs, prev>>

\* Line 160: yield self.transform_x(x), received by generator_with_buffer.
YieldTransformed ==
    /\ pc = "transform"
    /\ x' = transform_x(x)
    /\ tlog' = Append(tlog, x)
    /\ pc' = IF shuffle_buffer > 1 THEN "append" ELSE "emit"
    /\ UNCHANGED <<obj, called, config, runstate, pulls, fi, final, out, outcome, fresh, counter0, runs, prev>>

\* Mutant: a kept item is counted twice.
IncrementByTwo ==
    /\ pc = "incr"
    /\ counter' = counter + 2
    /\ pc' = "gate"
    /\ UNCHANGED <<obj, called, config, buffer, frame, seen>>

\* Line 162: self.counter += 1, once the generator is resumed.
Increment ==
    /\ pc = "incr"
    /\ counter' = counter + 1
    /\ pc' = "gate"
    /\ UNCHANGED <<obj, called, config, buffer, frame, seen>>

\* ----------------------------------------------- generator_with_buffer
\* Line 191: yield x (shuffle_buffer <= 1).
EmitDirect ==
    /\ pc = "emit"
    /\ out' = Append(out, x)
    /\ pc' = "yield_direct"
    /\ UNCHANGED <<obj, called, config, runstate, frame, tlog, outcome, fresh, counter0, runs, prev>>

\* Mutant: the buffer is flushed when it holds more than shuffle_buffer items.
AppendFlushesLate ==
    /\ pc = "append"
    /\ buffer' = Append(buffer, x)
    /\ IF Len(buffer') > shuffle_buffer
       THEN /\ pc' = "flush"
            /\ final' = FALSE
       ELSE /\ pc' = "incr"
            /\ UNCHANGED final
    /\ UNCHANGED <<obj, called, config, counter, x, pulls, fi, seen>>

\* Lines 181-184: self.buffer.append(x), flush when the buffer is full.
AppendToBuffer ==
    /\ pc = "append"
    /\ buffer' = Append(buffer, x)
    /\ IF Len(buffer') >= shuffle_buffer
       THEN /\ pc' = "flush"
            /\ final' = FALSE
       ELSE /\ pc' = "incr"
            /\ UNCHANGED final
    /\ UNCHANGED <<obj, called, config, counter, x, pulls, fi, seen>>

\* Mutant: no flush after the loop, a buffer that is not full is dropped.
DrainDropsPartial ==
    /\ pc = "drain"
    /\ pc' = "reset"
    /\ UNCHANGED <<obj, called, config, runstate, frame, seen>>

\* Lines 186-187: after the loop, flush what is left.
Drain ==
    /\ pc = "drain"
    /\ IF Len(buffer) > 0
       THEN /\ pc' = "flush"
            /\ final' = TRUE
       ELSE /\ pc' = "reset"
            /\ UNCHANGED final
    /\ UNCHANGED <<obj, called, config, runstate, x, pulls, fi, seen>>

\* Mutant: one generator, seeded at construction, is used for every shuffle,
\* so only the first flush of the first run is arranged as a generator fresh
\* from the seed arranges it (the next one of Random(43) leaves two items in
\* their order).
FlushShuffleAdvancing ==
    /\ pc = "flush"
    /\ buffer' = IF Len(out) = 0 /\ runs = 1
                 THEN Shuffled(shuffle_seed, buffer)
                 ELSE buffer
    /\ fi' = 0
    /\ pc' = "flush_loop"
    /\ UNCHANGED <<obj, called, config, counter, x, pulls, final, seen>>

\* Mutant: every flush draws a new seed and stores it in self.shuffle_seed.
FlushShuffleReseeds ==
    /\ pc = "flush"
    /\ \E r \in Seeds :
          /\ shuffle_seed' = r
          /\ buffer' = Shuffled(r, buffer)
    /\ fi' = 0
    /\ pc' = "flush_loop"
    /\ UNCHANGED <<obj, called, shuffle_buffer, offset, limit, transforms, source,
                   counter, x, pulls, final, seen>>

\* Line 124: Random(self.shuffle_seed).shuffle(self.buffer).
FlushShuffle ==
    /\ pc = "flush"
    /\ buffer' = Shuffled(shuffle_seed, buffer)
    /\ fi' = 0
    /\ pc' = "flush_loop"
    /\ UNCHANGED <<obj, called, config, counter, x, pulls, final, seen>>

\* Mutant: flush_buffer returns without clearing the buffer.
FlushStepKeepsBuffer ==
    /\ pc = "flush_loop"
    /\ IF fi < Len(buffer)
       THEN /\ out' = Append(out, buffer[fi + 1])
            /\ fi' = fi + 1
            /\ pc' = "yield_flush"
       ELSE /\ pc' = IF final THEN "reset" ELSE "incr"
            /\ UNCHANGED <<out, fi>>
    /\ UNCHANGED <<obj, called, config, runstate, x, pulls, final, tlog, outcome,
                   fresh, counter0, runs, prev>>

\* Lines 126-129: yield the next item of the buffer, or clear the buffer
\* and return to the caller of flush_buffer.
FlushStep ==
    /\ pc = "flush_loop"
    /\ IF fi < Len(buffer)
       THEN /\ out' = Append(out, buffer[fi + 1])
            /\ fi' = fi + 1
            /\ pc' = "yield_flush"
            /\ UNCHANGED buffer
       ELSE /\ buffer' = <<>>
            /\ pc' = IF final THEN "reset" ELSE "incr"
            /\ UNCHANGED <<out, fi>>
    /\ UNCHANGED <<obj, called, config, counter, x, pulls, final, tlog, outcome, fresh, counter0, runs, prev>>

\* Mutant: the reset sits inside the shuffling branch of line 179.
ResetOnlyWhenShuffling ==
    /\ pc = "reset"
    /\ counter' = IF shuffle_buffer > 1 THEN 0 ELSE counter
    /\ buffer' = <<>>
    /\ pc' = "none"
    /\ outcome' = "eos"
    /\ UNCHANGED <<obj, called, config, frame, out, tlog, fresh, counter0, runs, prev>>

\* Mutant: the end of the run clears the buffer and keeps the counter.
ResetKeepsCounter ==
    /\ pc = "reset"
    /\ buffer' = <<>>
    /\ pc' = "none"
    /\ outcome' = "eos"
    /\ UNCHANGED <<obj, called, config, counter, frame, out, tlog, fresh, counter0, runs, prev>>

\* Lines 194-195, then the generator returns: the consumer gets StopIteration.
Reset ==
    /\ pc = "reset"
    /\ counter' = 0
    /\ buffer' = <<>>
    /\ pc' = "none"
    /\ outcome' = "eos"
    /\ UNCHANGED <<obj, called, config, frame, out, tlog, fresh, counter0, runs, prev>>

\* ------------------------------------------------------------ specification
\* The program constructs one dataset object, with any of the arguments.
New ==
    /\ obj = "none"
    /\ \E sb \in ShuffleBufferArgs, seed \in ShuffleSeedArgs, off \in OffsetArgs,
          lim \in LimitArgs, tr \in TransformsArgs, required \in BOOLEAN,
          src \in Sources :
            Construct(sb, seed, off, lim, tr, required, src)

Next ==
    \/ New
    \/ Iter
    \/ NextStart
    \/ NextAfterYield
    \/ NextInFlush
    \/ Abandon
    \/ GateCheck
    \/ Pull
    \/ OffsetFilter
    \/ YieldTransformed
    \/ Increment
    \/ EmitDirect
    \/ AppendToBuffer
    \/ Drain
    \/ FlushShuffle
    \/ FlushStep
    \/ Reset

Spec == Init /\ [][Next]_vars

\* A step of a live traversal: the consumer asks for the next item, or the
\* generators run on towards their next yield or their end.
Advance ==
    \/ NextStart
    \/ NextAfterYield
    \/ NextInFlush
    \/ GateCheck
    \/ Pull
    \/ OffsetFilter
    \/ YieldTransformed
    \/ Increment
    \/ EmitDirect
    \/ AppendToBuffer
    \/ Drain
    \/ FlushShuffle
    \/ FlushStep
    \/ Reset

\* The program with a consumer that keeps requesting items for as long as it
\* holds the iterator: resumed generator code runs to its next yield (Python
\* runs it synchronously inside next()), and the consumer that has not
\* abandoned the traversal calls next() again.
\* Construction over a source that never ends, the case of the runs whose
\* termination rests on the gate alone.
NewOverUnbounded ==
    /\ obj = "none"
    /\ \E sb \in ShuffleBufferArgs, seed \in ShuffleSeedArgs, off \in OffsetArgs,
          lim \in LimitArgs, tr \in TransformsArgs, required \in BOOLEAN,
          src \in {s \in Sources : Unbounded(s)} :
            Construct(sb, seed, off, lim, tr, required, src)

NextOverUnbounded ==
    \/ NewOverUnbounded
    \/ Iter
    \/ Abandon
    \/ Advance

SpecFair == Init /\ [][NextOverUnbounded]_vars /\ WF_vars(Advance)

\* ------------------------------------------------------------------ claims
\* The traversal the ghost variables describe has run some of its body.
Active == outcome \in {"running", "eos", "raised", "abandoned"}

\* A traversal that began in the state every completed traversal leaves.
FreshRun == Active /\ fresh

\* Number of items a fresh generator of the source yields before it stops or
\* raises; a source that never ends has more than any run of the model pulls.
ItemCount ==
    IF source.kind \in {"finite", "failing"} THEN source.len ELSE MaxPulls + 1

\* Index of the first source item a run does not reach.
LastKept ==
    IF limit < 0 \/ ItemCount < offset + limit THEN ItemCount ELSE offset + limit

\* The source items from position offset up to LastKept, in source order
\* (the k-th item of every source of the model is k).
KeptRaw == [i \in 1..(LastKept - offset) |-> offset + i - 1]

\* C1: idempotent restart: when a traversal that began with counter = 0 and
\* an empty buffer (as after construction) was run to end of sequence and
\* the next traversal of the same object is run to end of sequence too, the
\* two emit the same items in the same order.
IdempotentRestart ==
    (outcome = "eos" /\ prev.outcome = "eos" /\ prev.fresh) => out = prev.out

\* C1 witness: a second full traversal repeats a first one of three items
\* that went through the offset filter and a shuffle with a partial flush.
IdempotentRestartWitness ==
    /\ outcome = "eos" /\ prev.outcome = "eos" /\ prev.fresh
    /\ runs = 2 /\ offset = 1 /\ shuffle_buffer = 2 /\ shuffle_seed = 42
    /\ transforms = <<>>
    /\ out = <<2, 1, 3>> /\ prev.out = <<2, 1, 3>>

\* C2: offset+limit composition: with shuffling disabled and no transforms,
\* a full traversal (begun with counter = 0 and an empty buffer) over a
\* source that raises no skip signal emits exactly the source items
\* offset .. offset+limit-1 in source order, up to the last item when the
\* source is shorter, and every item from offset on when limit < 0.
OffsetLimitComposition ==
    (outcome = "eos" /\ fresh /\ shuffle_buffer <= 1 /\ transforms = <<>>
        /\ source.kind # "evens")
    => out = KeptRaw

\* C2 witness: offset 1 and limit 2 over the integers gave 1, 2, on the
\* second traversal as on the first.
OffsetLimitCompositionWitness ==
    /\ outcome = "eos" /\ fresh /\ shuffle_buffer = 1 /\ transforms = <<>>
    /\ source.kind = "integers" /\ offset = 1 /\ limit = 2
    /\ out = <<1, 2>> /\ runs = 2 /\ prev.out = <<1, 2>>

\* C3: discard-current-item signal: a traversal with limit L >= 0, offset O,
\* no shuffle and no transforms over the source that flags every odd value
\* ends with end of sequence, having emitted the L even numbers 2*O,
\* 2*O+2, .., 2*(O+L-1) in order.  (Stated as the claim has it; the class
\* has no skip_next, so the flagged pull raises.)
SkipSignalDiscardsItem ==
    (source.kind = "evens" /\ pc = "none" /\ outcome \in {"eos", "raised"}
        /\ fresh /\ limit >= 0 /\ shuffle_buffer <= 1 /\ transforms = <<>>)
    => /\ outcome = "eos"
       /\ out = [i \in 1..limit |-> 2 * (offset + i - 1)]

\* C4: source failure: when the consumer observes the failure of a pull,
\* counter is 0 and buffer is empty.  (Stated as the claim has it.)
SourceFailureResets ==
    (source.kind = "failing" /\ outcome = "raised")
    => (counter = 0 /\ buffer = <<>>)

\* The transform chain applied left to right to one raw item, written out
\* for the chains of the model (none is longer than two).
Chain(v) ==
    CASE Len(transforms) = 0 -> v
      [] Len(transforms) = 1 -> Call(transforms[1], v)
      [] Len(transforms) = 2 -> Call(transforms[2], Call(transforms[1], v))

\* What a full traversal emits with shuffling disabled: the kept source
\* items, each through the chain.
KeptItems == [i \in 1..Len(KeptRaw) |-> Chain(KeptRaw[i])]

\* The items of a sequence as a multiset.
BagOf(seq) ==
    [v \in {seq[i] : i \in DOMAIN seq} |->
        Cardinality({i \in DOMAIN seq : seq[i] = v})]

\* C5: partial buffer flush loses nothing: with a shuffle buffer of more
\* than one item, the items a full traversal (begun with counter = 0 and an
\* empty buffer) emits are, as a multiset, the items the configuration
\* emits with shuffling disabled, so the last, shorter buffer is emitted in
\* full.
PartialFlushLosesNothing ==
    (outcome = "eos" /\ fresh /\ shuffle_buffer > 1 /\ source.kind # "evens")
    => BagOf(out) = BagOf(KeptItems)

\* C5 witness: three kept items through a buffer of two: a full buffer
\* and then a last buffer of one item, both emitted.
PartialFlushWitness ==
    /\ outcome = "eos" /\ fresh /\ shuffle_buffer = 2 /\ shuffle_seed = 43
    /\ transforms = <<"dbl">> /\ offset = 0 /\ source.kind = "integers"
    /\ limit = 3 /\ out = <<2, 0, 4>>

\* C6: transform composition: in a traversal begun with counter = 0 and an
\* empty buffer, the raw items passed to the transform chain are exactly
\* the source items from position offset on, each once and in order (an
\* item the offset filter discards is never passed), and every emitted item
\* is the chain applied left to right to one of them: to the item at the
\* same post-offset position when shuffling is disabled, and to a different
\* raw item for each emitted item when it is enabled.
TransformComposition ==
    FreshRun =>
        /\ tlog = [i \in 1..Len(tlog) |-> offset + i - 1]
        /\ Len(out) <= Len(tlog)
        /\ shuffle_buffer <= 1 =>
               out = [i \in 1..Len(out) |-> Chain(offset + i - 1)]
        /\ shuffle_buffer > 1 =>
               /\ \A i \in DOMAIN out : \E j \in DOMAIN tlog : out[i] = Chain(tlog[j])
               /\ \A i, j \in DOMAIN out : out[i] = out[j] => i = j

\* C6 witness: offset 1, limit 2 and the chain inc, dbl emitted (1+1)*2 and
\* (2+1)*2, and the item at position 0 never reached the chain.
TransformCompositionWitness ==
    /\ outcome = "eos" /\ fresh /\ shuffle_buffer = 1
    /\ transforms = <<"inc", "dbl">> /\ offset = 1 /\ limit = 2
    /\ tlog = <<1, 2>> /\ out = <<4, 6>>

\* C7: configuration guard: construction ends in the configuration error
\* exactly when transforms_required is true and transforms is None or an
\* empty list, and then there is no object to traverse; every other
\* construction gives an object with counter = 0 and an empty buffer.
ConfigurationGuard ==
    /\ obj = "error" <=>
           /\ called.transforms_required
           /\ called.transforms \in {None, Some(<<>>)}
    /\ obj = "error" => (runs = 0 /\ pc = "none")
    /\ (obj = "ready" /\ runs = 0) => (counter = 0 /\ buffer = <<>>)

\* C7 witness: transforms_required with an empty list ended in the error.
ConfigurationGuardWitness ==
    /\ obj = "error"
    /\ called = [transforms |-> Some(<<>>), transforms_required |-> TRUE]

\* C8: reset on completion: when the consumer observes end of sequence,
\* counter is 0 and buffer is empty, however the run ended and began.
ResetOnCompletion ==
    outcome = "eos" => (counter = 0 /\ buffer = <<>>)

\* C8 witness: end of sequence after the limit gate cut a shuffled run over
\* an unbounded source, two items having been counted and buffered.
ResetOnCompletionWitness ==
    /\ outcome = "eos" /\ counter = 0 /\ buffer = <<>>
    /\ source.kind = "integers" /\ limit = 2 /\ shuffle_buffer = 3
    /\ Len(out) = 2 /\ pulls = offset + 2

\* C9: fresh start of every traversal: at a traversal's first gate check
\* counter is 0 and buffer is empty, whatever happened to the traversal
\* before.  (Stated as the claim has it, over sources that never fail.)
FreshStartOfEveryTraversal ==
    (pc = "gate" /\ pulls = 0 /\ source.kind \in {"finite", "integers"})
    => (counter = 0 /\ buffer = <<>>)

\* C10: gate check: the source is pulled only where limit < 0 or
\* counter < limit + offset; with limit >= 0 a run makes at most
\* offset + limit pulls, and a run begun with counter = 0 and an empty
\* buffer emits at most limit items.
GateCheckBoundsRun ==
    /\ pc = "pull" => (limit < 0 \/ counter < limit + offset)
    /\ (obj = "ready" /\ limit >= 0) => pulls <= offset + limit
    /\ (FreshRun /\ limit >= 0) => Len(out) <= limit

\* C10 witness: the gate is about to refuse a pull, offset + limit pulls
\* made and limit items emitted.
GateCheckWitness ==
    /\ pc = "gate" /\ fresh /\ limit = 2 /\ offset = 1
    /\ counter = 3 /\ pulls = 3 /\ Len(out) = 2

\* C11: termination over an unbounded source: with limit >= 0 and the
\* source that never ends and never fails, a traversal whose consumer keeps
\* requesting items (does not abandon it) reaches end of sequence, for every
\* offset and every shuffle buffer size.
TerminationOverUnboundedSource ==
    (outcome = "running" /\ source.kind = "integers" /\ limit >= 0)
        ~> (outcome \in {"eos", "abandoned"})

\* C11 witness: end of sequence over the integers with a shuffle buffer
\* larger than the limit, after an offset.
TerminationWitness ==
    /\ outcome = "eos" /\ source.kind = "integers" /\ runs = 1
    /\ shuffle_buffer = 3 /\ limit = 2 /\ offset = 2 /\ shuffle_seed = 42
    /\ transforms = <<>> /\ out = <<3, 2>>

\* flush_buffer is between its shuffle and its return.
InFlush == pc \in {"flush_loop", "yield_flush"}

\* The buffered items the consumer has not received yet.
Pending == IF InFlush THEN SubSeq(buffer, fi + 1, Len(buffer)) ELSE buffer

\* The items generator_with_buffer has appended to the buffer in this run:
\* everything generator_with_conditions has yielded, in order.
AppendedItems ==
    [i \in 1..(Len(tlog) - (IF pc = "append" THEN 1 ELSE 0)) |-> Chain(tlog[i])]

\* C12: buffer bound and atomic flush: with a shuffle buffer of B > 1 items,
\* in every state of a run begun with counter = 0 and an empty buffer the
\* buffer holds at most B items, and while the run goes on the items
\* appended so far are exactly the items emitted so far plus the items still
\* waiting in the buffer, each once; and in no run does a step taken after
\* the first item of a flush was emitted change the buffer other than by
\* clearing it.
BufferBoundAtomicFlush ==
    /\ []((FreshRun /\ shuffle_buffer > 1) =>
            /\ Len(buffer) <= shuffle_buffer
            /\ outcome \in {"running", "eos"} =>
                   /\ BagOf(out \o Pending) = BagOf(AppendedItems)
                   /\ \A v \in DOMAIN BagOf(out \o Pending) :
                          BagOf(out \o Pending)[v] = 1)
    /\ [][(InFlush /\ fi >= 1) => (buffer' = buffer \/ buffer' = <<>>)]_vars

\* C12 witness: the second of three items of a full buffer has been emitted
\* and the third is still waiting.
BufferBoundWitness ==
    /\ FreshRun /\ shuffle_buffer = 3 /\ shuffle_seed = 43 /\ offset = 0
    /\ transforms = <<>> /\ pc = "yield_flush" /\ fi = 2
    /\ buffer = <<2, 1, 0>> /\ out = <<2, 1>>

\* Position, inside the k-th group of shuffle_buffer appended items, of the
\* item v.
PlaceInGroup(v, k) ==
    CHOOSE j \in 1..shuffle_buffer :
        AppendedItems[(k - 1) * shuffle_buffer + j] = v

\* C13: re-seed per flush: in a run begun with counter = 0 and an empty
\* buffer, a flush arranges the buffer as the permutation of shuffle_seed
\* and the buffer's length arranges it, whatever was flushed before in this
\* run or an earlier one; so every flush of a full buffer moves the item
\* at each place of its group to the same place as the first flush did.
ReseedPerFlush ==
    (FreshRun /\ shuffle_buffer > 1 /\ outcome = "running") =>
        /\ InFlush =>
               \A i \in DOMAIN buffer :
                   buffer[i] =
                       AppendedItems[Len(AppendedItems) - Len(buffer)
                           + ShufflePerm(shuffle_seed, Len(buffer))[i]]
        /\ \A i \in DOMAIN out :
               LET k == ((i - 1) \div shuffle_buffer) + 1 IN
               (k > 1 /\ k * shuffle_buffer <= Len(AppendedItems)) =>
                   PlaceInGroup(out[i], k)
                       = PlaceInGroup(out[i - (k - 1) * shuffle_buffer], 1)

\* C13 witness: the second flush of a full buffer, in the second traversal,
\* has swapped its two items as the first flush did.
ReseedPerFlushWitness ==
    /\ FreshRun /\ runs = 2 /\ prev.outcome = "eos" /\ outcome = "running"
    /\ shuffle_buffer = 2 /\ shuffle_seed = 43 /\ transforms = <<>> /\ offset = 0
    /\ pc = "yield_flush" /\ fi = 2 /\ out = <<1, 0, 3, 2>>

\* C14: shuffling stays inside its window: in a run begun with counter = 0
\* and an empty buffer, with a shuffle buffer of B > 1 items, the i-th
\* emitted item is one of the items of the group of B consecutive items of
\* the unshuffled post-offset, post-transform sequence that position i falls
\* in, no item is emitted twice, and until the loop over the source has
\* ended the consumer has received only whole groups of B collected items.
ShuffleStaysInWindow ==
    (FreshRun /\ shuffle_buffer > 1) =>
        /\ \A i \in DOMAIN out :
               LET g == (i - 1) \div shuffle_buffer IN
               \E j \in (g * shuffle_buffer + 1)..(g * shuffle_buffer + shuffle_buffer) :
                   out[i] = Chain(offset + j - 1)
        /\ \A i, j \in DOMAIN out : out[i] = out[j] => i = j
        /\ (Len(out) > 0 /\ ~final) =>
               Len(out) <= shuffle_buffer * (Len(AppendedItems) \div shuffle_buffer)

\* C14 witness: four items through a buffer of three: a group of three
\* rearranged, then the last group of one.
ShuffleWindowWitness ==
    /\ outcome = "eos" /\ fresh /\ shuffle_buffer = 3 /\ shuffle_seed = 42
    /\ transforms = <<>> /\ offset = 0 /\ limit = 0 - 1
    /\ out = <<1, 0, 2, 3>>

\* C15: no shuffling when the buffer size is 1 or less: for every
\* shuffle_buffer <= 1 (0 and negative values too) the buffer is empty in
\* every state, every item that went through the chain is with the consumer
\* before the source is pulled again, the output is the transformed items in
\* the order they were pulled, which is source order, and in a run begun
\* with counter = 0 it is the source from position offset on.
NoShuffleAtOneOrLess ==
    (obj = "ready" /\ shuffle_buffer <= 1) =>
        /\ buffer = <<>>
        /\ pc = "pull" => Len(out) = Len(tlog)
        /\ out = [i \in 1..Len(out) |-> Chain(tlog[i])]
        /\ \A i, j \in DOMAIN tlog : i < j => tlog[i] < tlog[j]
        /\ FreshRun => \A i \in DOMAIN out : out[i] = Chain(offset + i - 1)

\* C15 witness: with shuffle_buffer = -1 two items are with the consumer
\* when the third pull is about to be made.
NoShuffleWitness ==
    /\ shuffle_buffer = 0 - 1 /\ pc = "pull" /\ pulls = 3 /\ offset = 1
    /\ transforms = <<"dbl", "inc">> /\ tlog = <<1, 2>> /\ out = <<3, 5>>
    /\ buffer = <<>>

\* Items the live traversal has pulled from the source so far.
ItemsPulled ==
    Cardinality({k \in 0..(pulls - 1) : SourceEvent(source, k).t = "item"})

\* An item has been pulled and line 157 or 162 has not yet counted it: it is
\* at the filter, in the chain, with the consumer, or in a buffer whose
\* flush (from inside the loop) is going on.
ItemInFlight ==
    \/ pc \in {"filter", "transform", "append", "emit", "yield_direct", "incr"}
    \/ pc \in {"flush", "flush_loop", "yield_flush"} /\ ~final

\* C16 as stated: counter counts pulls: in every state of a run (begun with
\* counter = 0) in which the consumer holds an item just handed to it,
\* counter equals the number of items pulled from the source so far.
CounterCountsPulls ==
    (FreshRun /\ outcome = "running" /\ pc \in {"yield_direct", "yield_flush"})
    => counter = ItemsPulled

\* C16 amended: in every state of a run, counter equals the value it had
\* when the traversal began (0 after construction and after every completed
\* traversal) plus the number of items pulled so far, dropped by the offset
\* filter or kept, less the one item that has been pulled and not yet
\* counted.
CounterLagsPulls ==
    /\ outcome = "running" =>
           counter = counter0 + ItemsPulled - (IF ItemInFlight THEN 1 ELSE 0)
    /\ FreshRun => counter0 = 0

\* C16 witness: the consumer holds the second kept item after an offset of
\* one: three items pulled, counter is 2.
CounterLagsPullsWitness ==
    /\ FreshRun /\ outcome = "running" /\ pc = "yield_direct"
    /\ offset = 1 /\ limit = 2 /\ Len(out) = 2 /\ pulls = 3 /\ counter = 2

\* ---------------------------------------------------------------- C17
\* C17: counter is monotone within a run: every step leaves counter
\* unchanged or raises it by exactly 1, except the reset at the end of a
\* traversal (lines 194-195, after which the consumer gets end of
\* sequence), which sets it to 0; no other step lowers counter.
CounterMonotone ==
    [][\/ counter' = counter
       \/ counter' = counter + 1
       \/ pc = "reset" /\ outcome' = "eos" /\ counter' = 0]_vars

\* C17 witness: a traversal that skipped one item and kept two has ended:
\* counter went up to 3 one by one and is 0 again.
CounterMonotoneWitness ==
    /\ FreshRun /\ outcome = "eos" /\ counter = 0
    /\ offset = 1 /\ limit = 2 /\ Len(out) = 2 /\ pulls = 3

\* ---------------------------------------------------------------- C18
\* C18: once the object is constructed, no step of any traversal, whether it
\* completes, is abandoned or fails, changes shuffle_buffer, shuffle_seed,
\* offset, limit, transforms or the source; the seed drawn at construction
\* when none was passed is therefore the one every flush of every traversal
\* shuffles with.
ConfigurationNeverChanges ==
    [][obj = "ready" => (obj' = "ready" /\ config' = config)]_vars

\* C18 witness: a second traversal, begun after an abandoned one, has flushed
\* a buffer and then failed on the source; the configuration is as built.
ConfigurationNeverChangesWitness ==
    /\ runs = 2 /\ prev.outcome = "abandoned" /\ prev.out # <<>>
    /\ outcome = "raised" /\ out # <<>>
    /\ shuffle_buffer = 2 /\ shuffle_seed = 43 /\ offset = 1 /\ limit = 0 - 1
    /\ transforms = <<"inc", "dbl">>

\* ---------------------------------------------------------------- C19
\* C19: the run state is reset only by the step in which the consumer, having
\* asked for an item after the last one, is given end of sequence: no other
\* step lowers counter, and the buffer is otherwise emptied only by a flush
\* that has handed out all of its items (line 129).  A consumer that holds
\* the last item of a run, or has dropped the iterator there, finds the run
\* state un-reset: with shuffling off and limit = L >= 1, counter is
\* offset + L - 1 after the L-th item of a run begun with counter = 0; with
\* shuffling on, the buffer still holds the group being handed out.
ResetOnlyAtEndOfSequence ==
    /\ []((/\ FreshRun /\ shuffle_buffer <= 1 /\ limit >= 1 /\ Len(out) = limit
           /\ \/ outcome = "running" /\ pc = "yield_direct"
              \/ outcome = "abandoned")
          => counter = offset + limit - 1)
    /\ [](pc = "yield_flush" => (fi >= 1 /\ fi <= Len(buffer)))
    /\ [][counter' < counter => (pc = "reset" /\ outcome' = "eos")]_vars
    /\ [][(buffer # <<>> /\ buffer' = <<>>)
            => \/ pc = "reset" /\ outcome' = "eos"
               \/ pc = "flush_loop" /\ fi = Len(buffer)]_vars

\* C19 witness: after a first traversal that ended with end of sequence, the
\* consumer took both items of a second traversal and dropped the iterator
\* without asking for more: counter stays at offset + limit - 1 = 2.
ResetOnlyAtEndOfSequenceWitness ==
    /\ runs = 2 /\ prev.outcome = "eos" /\ outcome = "abandoned" /\ FreshRun
    /\ shuffle_buffer = 1 /\ offset = 1 /\ limit = 2 /\ Len(out) = 2
    /\ counter = 2

====
